---- MODULE Spec2Model ----
(***************************************************************************)
(* Model of src/App.tsx: the upload / analysis / history workflow of the   *)
(* App component.  The React state cells are the variables, every event    *)
(* handler and every continuation of runAnalysis after an await is one     *)
(* action.  A nullable value (File | null, AnalysisResult | null) is an    *)
(* option: Null is <<>> and a present value x is <<x>>.                    *)
(***************************************************************************)
EXTENDS Naturals, Sequences, FiniteSets

\* ---------------------------------------------------------------- bounds
\* Number of handler runs and continuations explored from the initial state:
\* enough for two submissions that run to completion one after the other.
MaxSteps == 8

\* ------------------------------------------------------------ data model
Null == <<>>

Some(x) == <<x>>

\* enum Language, in declaration order.
LanguageEnum == <<"Tamil", "English", "Hindi", "Malayalam", "Telugu">>

Language == {LanguageEnum[i] : i \in 1..Len(LanguageEnum)}

FirstLanguage == LanguageEnum[1]

\* useState<Language>(Language.ENGLISH)
InitialLanguage == "English"

\* The payloads the inference client can return (interface AnalysisResult);
\* the orchestrator treats them as opaque.
AnalysisResult ==
    { [classification |-> "Human", confidence |-> 92],
      [classification |-> "AI-Generated", confidence |-> 87] }

\* The audio files the user can pick: name, declared MIME type, contents.
Files ==
    { [name |-> "sample.wav", type |-> "audio/wav", bytes |-> 1],
      [name |-> "voice.mp3", type |-> "audio/mpeg", bytes |-> 2] }

Status == {"pending", "completed", "error"}

\* crypto.randomUUID() draws from this space.
UUID == 1..MaxSteps

\* The readings of Date.now().
Clock == {0, 1}

\* interface ScanRecord
ScanRecord ==
    [id : UUID, timestamp : Clock, fileName : {f.name : f \in Files},
     language : Language, result : {Null} \cup {Some(r) : r \in AnalysisResult},
     status : Status]

VARIABLES
    selectedLanguage,   \* useState<Language>
    isAnalyzing,        \* useState(false)
    history,            \* useState<ScanRecord[]>([])
    currentFile,        \* useState<File | null>(null)
    inputValue,         \* fileInputRef.current.value: "" or the chosen file's name
    tasks,              \* the runAnalysis invocations suspended at an await
    nullCalls,          \* history variable: runAnalysis invocations that returned at once
    steps,              \* history variable: handler runs and continuations so far
    submitted,          \* history variable: the newRecord of each submission, in order
    outcome             \* history variable: id -> how that submission's try block ended

vars ==
    <<selectedLanguage, isAnalyzing, history, currentFile, inputValue, tasks,
      nullCalls, steps, submitted, outcome>>

\* The history variables no handler but their own writes.
log == <<nullCalls, submitted, outcome>>

ui == <<selectedLanguage, isAnalyzing, history, currentFile, inputValue>>

\* ------------------------------------------------------------- helpers
\* FileReader.readAsDataURL: "data:<type>;base64,<payload>", as its
\* comma-separated parts.
ReadAsDataURL(file) ==
    << <<"data:", file.type, ";base64">>, <<"base64", file.bytes>> >>

\* convertToBase64: (reader.result as string).split(',')[1]
ConvertToBase64(file) == ReadAsDataURL(file)[2]

\* The ids crypto.randomUUID() has already returned.
IssuedIds == {submitted[i].id : i \in 1..Len(submitted)}

\* crypto.randomUUID(): an id no earlier call returned.  The code only tests
\* ids for equality, so which fresh id it is makes no difference.
RandomUUID == CHOOSE id \in UUID : id \notin IssuedIds

\* ------------------------------------------------------------- state
Init ==
    /\ selectedLanguage = InitialLanguage
    /\ isAnalyzing = FALSE
    /\ history = <<>>
    /\ currentFile = Null
    /\ inputValue = ""
    /\ tasks = {}
    /\ nullCalls = 0
    /\ steps = 0
    /\ submitted = <<>>
    /\ outcome = {}

\* ------------------------------------------------- runAnalysis, pieces
\* const newRecord: ScanRecord = {...}
NewRecord(id, now, file, language) ==
    [id |-> id, timestamp |-> now, fileName |-> file.name,
     language |-> language, status |-> "pending", result |-> Null]

\* [...prev, newRecord]
AppendLast(newRecord, prev) == Append(prev, newRecord)

\* setHistory(prev => [newRecord, ...prev])
Prepend(newRecord, prev) == <<newRecord>> \o prev

\* prev.map(rec => ({ ...rec, status: 'completed', result })), the id test
\* left out.
MarkAllCompleted(prev, newRecordId, result) ==
    [i \in 1..Len(prev) |->
        [prev[i] EXCEPT !.status = "completed", !.result = Some(result)]]

\* The status set and the result left out.
MarkCompletedNoResult(prev, newRecordId, result) ==
    [i \in 1..Len(prev) |->
        IF prev[i].id = newRecordId
        THEN [prev[i] EXCEPT !.status = "completed"]
        ELSE prev[i]]

\* setHistory(prev => prev.map(rec => rec.id === newRecordId
\*     ? { ...rec, status: 'completed', result } : rec))
MarkCompleted(prev, newRecordId, result) ==
    [i \in 1..Len(prev) |->
        IF prev[i].id = newRecordId
        THEN [prev[i] EXCEPT !.status = "completed", !.result = Some(result)]
        ELSE prev[i]]

\* The record found by position: the newest one, at the head, is updated.
MarkHeadError(prev, newRecordId) ==
    [i \in 1..Len(prev) |->
        IF i = 1 THEN [prev[i] EXCEPT !.status = "error"] ELSE prev[i]]

\* The catch block only logging: the record is left as it is.
MarkErrorForgotten(prev, newRecordId) == prev

\* prev.filter(rec => rec.id !== newRecordId): the failed record dropped.
DropFailed(prev, newRecordId) ==
    SelectSeq(prev, LAMBDA rec : rec.id # newRecordId)

\* setHistory(prev => prev.map(rec => rec.id === newRecordId
\*     ? { ...rec, status: 'error' } : rec))
MarkError(prev, newRecordId) ==
    [i \in 1..Len(prev) |->
        IF prev[i].id = newRecordId
        THEN [prev[i] EXCEPT !.status = "error"]
        ELSE prev[i]]

\* The finally block without setIsAnalyzing(false).
FinallyKeepsFlag ==
    /\ isAnalyzing' = isAnalyzing
    /\ currentFile' = Null
    /\ inputValue' = ""

\* The finally block without setCurrentFile(null).
FinallyKeepsFile ==
    /\ isAnalyzing' = FALSE
    /\ currentFile' = currentFile
    /\ inputValue' = ""

\* finally { setIsAnalyzing(false); setCurrentFile(null);
\*           if (fileInputRef.current) fileInputRef.current.value = ''; }
Finally ==
    /\ isAnalyzing' = FALSE
    /\ currentFile' = Null
    /\ inputValue' = ""

\* The language read from the state cell when the call is made, not from the
\* closure of the invocation.
RequestLatestLanguage(base64, language, file) ==
    [audio |-> base64, language |-> selectedLanguage, mimeType |-> file.type]

\* The arguments of analyzeVoiceSample(base64, selectedLanguage,
\* currentFile.type), all three read from the closure of the invocation.
Request(base64, language, file) ==
    [audio |-> base64, language |-> language, mimeType |-> file.type]

\* runAnalysis from setIsAnalyzing(true) to its first await, where the
\* invocation is left suspended with its closure: the file, the language and
\* the id it read.
Submit(id, now) ==
    LET file == currentFile[1]
        newRecord == NewRecord(id, now, file, selectedLanguage)
    IN  /\ isAnalyzing' = TRUE
        /\ history' = Prepend(newRecord, history)
        /\ tasks' = tasks \cup
               {[id |-> id, file |-> file, language |-> selectedLanguage,
                 stage |-> "encoding", request |-> Null]}
        /\ submitted' = Append(submitted, newRecord)
        /\ UNCHANGED <<selectedLanguage, currentFile, inputValue,
                       nullCalls, outcome>>

\* runAnalysis without its first line: with no file staged it sets the flag
\* and then throws on currentFile.name, before the try block.
RunAnalysisUnguarded(id, now) ==
    IF currentFile = Null
    THEN /\ isAnalyzing' = TRUE
         /\ nullCalls' = nullCalls + 1
         /\ UNCHANGED <<selectedLanguage, history, currentFile, inputValue,
                        tasks, submitted, outcome>>
    ELSE Submit(id, now)

\* runAnalysis up to its first await.  id is the value of
\* crypto.randomUUID(), now the value of Date.now().
RunAnalysis(id, now) ==
    IF currentFile = Null
    THEN /\ nullCalls' = nullCalls + 1
         /\ UNCHANGED <<ui, tasks, submitted, outcome>>
    ELSE Submit(id, now)

\* reader.onload: convertToBase64 resolves and runAnalysis goes on to call
\* analyzeVoiceSample, where it suspends again.
EncodeResolved(t) ==
    /\ t \in tasks
    /\ t.stage = "encoding"
    /\ tasks' = (tasks \ {t}) \cup
           {[t EXCEPT !.stage = "inferring",
                      !.request = Some(Request(ConvertToBase64(t.file),
                                               t.language, t.file))]}
    /\ UNCHANGED <<ui, nullCalls, submitted, outcome>>

\* try { ... } finally { ... } with no catch block: the rejection leaves
\* runAnalysis unhandled and the record is not touched.
CatchMissing(t, stage) ==
    /\ history' = history
    /\ Finally
    /\ tasks' = tasks \ {t}
    /\ outcome' = outcome \cup
           {[id |-> t.id, kind |-> stage, result |-> Null,
             rejection |-> "unhandled"]}
    /\ UNCHANGED <<selectedLanguage, nullCalls, submitted>>

\* The catch block followed by the finally block.  stage tells which await
\* threw; the error goes to console.error and nowhere else, and nothing is
\* thrown again.
Catch(t, stage) ==
    /\ history' = MarkError(history, t.id)
    /\ Finally
    /\ tasks' = tasks \ {t}
    /\ outcome' = outcome \cup
           {[id |-> t.id, kind |-> stage, result |-> Null,
             rejection |-> "caught"]}
    /\ UNCHANGED <<selectedLanguage, nullCalls, submitted>>

\* reader.onerror: convertToBase64 rejects.
EncodeRejected(t) ==
    /\ t \in tasks
    /\ t.stage = "encoding"
    /\ Catch(t, "encodeFailed")

\* analyzeVoiceSample resolves with result: the rest of the try block, then
\* the finally block.
AnalyzeResolved(t, result) ==
    /\ t \in tasks
    /\ t.stage = "inferring"
    /\ history' = MarkCompleted(history, t.id, result)
    /\ Finally
    /\ tasks' = tasks \ {t}
    /\ outcome' = outcome \cup
           {[id |-> t.id, kind |-> "resolved", result |-> Some(result),
             rejection |-> "none"]}
    /\ UNCHANGED <<selectedLanguage, nullCalls, submitted>>

\* analyzeVoiceSample rejects.
AnalyzeRejected(t) ==
    /\ t \in tasks
    /\ t.stage = "inferring"
    /\ Catch(t, "inferenceFailed")

\* ------------------------------------------------------ other handlers
\* handleFileUpload: files is e.target.files?.[0], Null when the list is
\* empty.  The browser has set the control's value before the event fires.
HandleFileUpload(files) ==
    /\ inputValue' = IF files = Null THEN "" ELSE files[1].name
    /\ currentFile' = IF files # Null THEN files ELSE currentFile
    /\ UNCHANGED <<selectedLanguage, isAnalyzing, history, tasks, log>>

\* onClick={() => setCurrentFile(null)}
RemoveFileHandler ==
    /\ currentFile' = Null
    /\ UNCHANGED <<selectedLanguage, isAnalyzing, history, inputValue, tasks,
                   log>>

\* <LanguageSelector selected={selectedLanguage} onSelect={setSelectedLanguage} />
SetSelectedLanguage(language) ==
    /\ selectedLanguage' = language
    /\ UNCHANGED <<isAnalyzing, history, currentFile, inputValue, tasks,
                   nullCalls, submitted, outcome>>

\* ------------------------------------------------------ what is rendered
\* {currentFile ? (... Remove file ...) : (<label htmlFor="audio-upload">)}
UploadLabelShown == currentFile = Null

RemoveButtonShown == currentFile # Null

\* {currentFile && (<button onClick={runAnalysis} ...>)}
PrimaryActionShown == currentFile # Null

NeverDisabled == FALSE

\* disabled={isAnalyzing}
PrimaryActionDisabled == isAnalyzing

\* ------------------------------------------------------------- actions
\* One more handler run or continuation, while the exploration lasts.
Tick ==
    /\ steps < MaxSteps
    /\ steps' = steps + 1

\* The user picks a file (or empties the selection) in the dialog opened
\* from the upload label; a change event fires only when the control's
\* value changes.
PickFile ==
    /\ Tick
    /\ UploadLabelShown
    /\ \E files \in {Null} \cup {Some(f) : f \in Files} :
          /\ inputValue # (IF files = Null THEN "" ELSE files[1].name)
          /\ HandleFileUpload(files)

RemoveFile ==
    /\ Tick
    /\ RemoveButtonShown
    /\ RemoveFileHandler

SelectLanguage ==
    /\ Tick
    /\ \E language \in Language : SetSelectedLanguage(language)

ClickAnalyze ==
    /\ Tick
    /\ PrimaryActionShown
    /\ ~PrimaryActionDisabled
    /\ \E now \in Clock : RunAnalysis(RandomUUID, now)

EncodeOk ==
    /\ Tick
    /\ \E t \in tasks : EncodeResolved(t)

EncodeFail ==
    /\ Tick
    /\ \E t \in tasks : EncodeRejected(t)

InferOk ==
    /\ Tick
    /\ \E t \in tasks, result \in AnalysisResult : AnalyzeResolved(t, result)

InferFail ==
    /\ Tick
    /\ \E t \in tasks : AnalyzeRejected(t)

\* The application as its user interface drives it.
Next ==
    \/ PickFile
    \/ RemoveFile
    \/ SelectLanguage
    \/ ClickAnalyze
    \/ EncodeOk
    \/ EncodeFail
    \/ InferOk
    \/ InferFail

Spec == Init /\ [][Next]_vars

\* The completions as the event loop delivers them: a FileReader event or a
\* settled promise is never withheld, so the bound of the exploration stops
\* the user's actions only, and the count of steps stays at the bound.
Elapse == steps' = IF steps < MaxSteps THEN steps + 1 ELSE steps

EncoderSettles ==
    /\ Elapse
    /\ \E t \in tasks : EncodeResolved(t) \/ EncodeRejected(t)

InferenceSettles ==
    /\ Elapse
    /\ \E t \in tasks :
          \/ \E result \in AnalysisResult : AnalyzeResolved(t, result)
          \/ AnalyzeRejected(t)

NextLive ==
    \/ PickFile
    \/ RemoveFile
    \/ SelectLanguage
    \/ ClickAnalyze
    \/ EncoderSettles
    \/ InferenceSettles

\* Every read of the encoder and every call of the inference client ends, in
\* success or in failure.
SpecLive ==
    /\ Init
    /\ [][NextLive]_vars
    /\ WF_vars(EncoderSettles)
    /\ WF_vars(InferenceSettles)

\* runAnalysis called in any state, whatever is rendered: with no staged
\* file, and during another analysis.
CallRunAnalysis ==
    /\ Tick
    /\ \E now \in Clock : RunAnalysis(RandomUUID, now)

NextCall ==
    \/ PickFile
    \/ RemoveFile
    \/ SelectLanguage
    \/ CallRunAnalysis
    \/ EncodeOk
    \/ EncodeFail
    \/ InferOk
    \/ InferFail

SpecCall == Init /\ [][NextCall]_vars

\* ------------------------------------------------------------- claims
\* The positions of the records with a given id, and with a given status.
Positions(id) == {i \in 1..Len(history) : history[i].id = id}

WithStatus(status) == {i \in 1..Len(history) : history[i].status = status}

Terminal(rec) == rec.status \in {"completed", "error"}

\* A step in which runAnalysis returned at its first line.
ReturnedEarly == nullCalls' = nullCalls + 1

\* A step in which runAnalysis created a record.
Submitted == Len(submitted') = Len(submitted) + 1

\* A step that ended an analysis: its try block was left one way or the other.
Reconciled == outcome' # outcome

\* C1: runAnalysis invoked while no file is staged changes nothing: the
\* history, the isAnalyzing flag, the staged file, the selected language, the
\* file input and the suspended analyses stay as they are, and no record is
\* created.
C1_NoFileNoOp ==
    [][(currentFile = Null /\ ReturnedEarly)
          => UNCHANGED <<history, isAnalyzing, currentFile, selectedLanguage,
                         inputValue, tasks, submitted>>]_vars

\* runAnalysis has been invoked with no file staged, after an earlier
\* analysis left a record behind.
C1_Witness == nullCalls > 0 /\ currentFile = Null /\ Len(history) > 0

\* C2: runAnalysis invoked with a file staged puts, in that same step, a new
\* record at the head of the history: pending, with no result, the staged
\* file's name and the selected language; the records that were there follow
\* it unchanged and in their order.
C2_PendingPrepended ==
    [][Submitted =>
          /\ currentFile # Null
          /\ history' # <<>>
          /\ Head(history').status = "pending"
          /\ Head(history').result = Null
          /\ Head(history').fileName = currentFile[1].name
          /\ Head(history').language = selectedLanguage
          /\ Tail(history') = history]_vars

\* A second submission, in Hindi, stands pending ahead of a finished record.
C2_Witness ==
    /\ Len(history) = 2
    /\ history[1].status = "pending"
    /\ history[1].language = "Hindi"
    /\ history[1].fileName = "sample.wav"
    /\ Terminal(history[2])

\* C3: every submission whose encoding and inference both succeeded has
\* exactly one record, which is completed and holds exactly the result the
\* inference client returned, in every later state (the result is never
\* overwritten); a record is completed only by its own submission's success,
\* and it was pending until then.
C3_CompletedOnce ==
    /\ \A o \in outcome :
          o.kind = "resolved" =>
             /\ Cardinality(Positions(o.id)) = 1
             /\ \A i \in Positions(o.id) :
                   /\ history[i].status = "completed"
                   /\ history[i].result = o.result
    /\ \A i \in WithStatus("completed") :
          \E o \in outcome : o.id = history[i].id /\ o.kind = "resolved"
    /\ \A t \in tasks : \A i \in Positions(t.id) : history[i].status = "pending"

\* Two submissions succeeded with different results.
C3_Witness ==
    /\ Len(history) = 2
    /\ history[1].status = "completed"
    /\ history[2].status = "completed"
    /\ history[1].result # history[2].result

\* C4: every submission whose encoder or inference call failed has exactly
\* one record, and it is the record as created but for status = error: the
\* result is still null, whichever of the two stages failed.
C4_FailedIsError ==
    \A o \in outcome :
       o.kind \in {"encodeFailed", "inferenceFailed"} =>
          /\ Cardinality(Positions(o.id)) = 1
          /\ \A i \in Positions(o.id) :
                /\ history[i].result = Null
                /\ \E k \in 1..Len(submitted) :
                      history[i] = [submitted[k] EXCEPT !.status = "error"]

\* One submission failed in the encoder and another in the inference call.
C4_Witness ==
    /\ \E o \in outcome : o.kind = "encodeFailed"
    /\ \E o \in outcome : o.kind = "inferenceFailed"

\* C5: at most one record is pending, whatever the user does among the
\* actions the page offers and however the completions interleave.
C5_OneInFlight == Cardinality(WithStatus("pending")) <= 1

\* During an analysis the user has removed the file and staged the other
\* one: the primary action is shown, and disabled.
C5_Witness ==
    /\ Cardinality(WithStatus("pending")) = 1
    /\ PrimaryActionShown
    /\ PrimaryActionDisabled
    /\ \E i \in WithStatus("pending") : history[i].fileName # currentFile[1].name

\* C6: the step that takes an analysis to completed or error leaves the flag
\* false, no file staged and the file input empty: the upload label is shown
\* again, any file can be picked, and the primary action is not disabled.
C6_ResetAfterTerminal ==
    [][Reconciled =>
          /\ \E i \in 1..Len(history') :
                ~Terminal(history[i]) /\ Terminal(history'[i])
          /\ isAnalyzing' = FALSE
          /\ currentFile' = Null
          /\ inputValue' = ""
          /\ UploadLabelShown'
          /\ ~PrimaryActionDisabled']_vars

\* An analysis has ended, the page is reset, and the file of that analysis
\* has been picked again and submitted.
C6_Witness ==
    /\ Len(history) = 2
    /\ Terminal(history[2])
    /\ history[1].status = "pending"
    /\ history[1].fileName = history[2].fileName

\* The fields of a record that are set when it is created.
Identity(rec) ==
    [id |-> rec.id, timestamp |-> rec.timestamp, fileName |-> rec.fileName,
     language |-> rec.language]

\* C7, as stated: each record's timestamp is strictly greater than that of
\* the record after it.
C7_StrictlyDecreasingTimestamps ==
    \A i \in 1..(Len(history) - 1) :
       history[i].timestamp > history[i + 1].timestamp

\* C7, amended: the history lists the records in reverse order of submission,
\* the record of the k-th of N submissions at position N - k + 1, each with
\* the clock value read at its submission.
C7_ReverseSubmissionOrder ==
    /\ Len(history) = Len(submitted)
    /\ \A i \in 1..Len(history) :
          LET k == Len(submitted) + 1 - i
          IN  /\ history[i].id = submitted[k].id
              /\ history[i].timestamp = submitted[k].timestamp

\* Two submissions one after the other, the second of which read a clock
\* value no later than the first.
C7_Witness ==
    /\ Len(history) = 2
    /\ tasks = {}
    /\ history[1].id = submitted[2].id
    /\ history[1].timestamp <= history[2].timestamp

\* C8: the history holds one record per runAnalysis invocation made with a
\* file staged; no step removes a record or changes the id, timestamp,
\* fileName or language of one.
C8_AppendOnly ==
    /\ Len(history) = Len(submitted)
    /\ [][/\ Len(history') = Len(submitted')
          /\ Len(history') >= Len(history)
          /\ \A i \in 1..Len(history) :
                Cardinality({j \in 1..Len(history') :
                               Identity(history'[j]) = Identity(history[i])}) = 1]_vars

\* Two submissions have been made and both have ended, the first one failed.
C8_Witness ==
    /\ Len(submitted) = 2
    /\ Len(history) = 2
    /\ history[2].status = "error"
    /\ Terminal(history[1])

\* C9: no step changes the status or the result of a record that is
\* completed or error.
C9_TerminalIsFinal ==
    [][\A i \in 1..Len(history) :
          Terminal(history[i]) =>
             \E j \in 1..Len(history') :
                /\ history'[j].id = history[i].id
                /\ history'[j].status = history[i].status
                /\ history'[j].result = history[i].result]_vars

\* A failed record has stayed as it was through a later submission and its
\* successful reconciliation.
C9_Witness ==
    /\ Len(history) = 2
    /\ history[2].status = "error"
    /\ history[2].result = Null
    /\ history[1].status = "completed"

\* C10, as stated: the language chosen initially is the first value of the
\* enumeration, and the chosen language is always one of its values.
C10_InitiallyFirstLanguage ==
    /\ steps = 0 => selectedLanguage = LanguageEnum[1]
    /\ selectedLanguage \in Language

\* C10, amended: the language chosen initially is English, the second value
\* of the enumeration, and the chosen language is always one of its values.
C10_InitiallyEnglish ==
    /\ steps = 0 => selectedLanguage = "English" /\ selectedLanguage = LanguageEnum[2]
    /\ selectedLanguage \in {"Tamil", "English", "Hindi", "Malayalam", "Telugu"}

\* The user has chosen Telugu, the last value of the enumeration.
C10_Witness == steps > 0 /\ selectedLanguage = LanguageEnum[5]

\* C11: a reconciliation changes the record whose id is the id generated for
\* that submission, wherever it is in the history, and only its status and
\* result; every other record and the order of the history stay as they are.
C11_ReconciledById ==
    [][\A o \in outcome' \ outcome :
          /\ Len(history') = Len(history)
          /\ \A i \in 1..Len(history) :
                IF history[i].id = o.id
                THEN /\ history[i].status = "pending"
                     /\ Terminal(history'[i])
                     /\ Identity(history'[i]) = Identity(history[i])
                ELSE history'[i] = history[i]]_vars

\* The older of two analyses in flight has been reconciled, as the second
\* record of the history, while the newer one at the head is still pending.
C11_Witness ==
    /\ Len(history) = 2
    /\ Cardinality(tasks) = 1
    /\ history[1].status = "pending"
    /\ Terminal(history[2])
    /\ ~isAnalyzing

\* C12: every pending record is eventually completed or error, and the flag
\* is eventually false again, given that the encoder and the inference call
\* each end; nothing the user does in between cancels the analysis.
C12_RunsToCompletion ==
    /\ \A id \in UUID :
          (\E i \in Positions(id) : history[i].status = "pending")
             ~> (\E i \in Positions(id) : Terminal(history[i]))
    /\ isAnalyzing ~> ~isAnalyzing

\* During an analysis the user has removed the staged file and changed the
\* language, and the analysis has gone on to the inference call.
C12_Witness ==
    \E t \in tasks :
       /\ t.stage = "inferring"
       /\ currentFile = Null
       /\ inputValue = t.file.name
       /\ selectedLanguage # t.language

\* C13: a failure of the encoder or of the inference client never leaves
\* runAnalysis as an unhandled rejection; in the step that catches it the
\* pending record of that submission gets status error and nothing else of
\* it changes, so no detail of the error is stored in it.
C13_FailureCaught ==
    [][\A o \in outcome' \ outcome :
          o.kind \in {"encodeFailed", "inferenceFailed"} =>
             /\ o.rejection = "caught"
             /\ Positions(o.id) # {}
             /\ \A i \in Positions(o.id) :
                   /\ history[i].status = "pending"
                   /\ history'[i] = [history[i] EXCEPT !.status = "error"]]_vars

\* The inference call of one submission was rejected and caught, and the
\* page has taken a further submission since.
C13_Witness ==
    /\ Len(history) = 2
    /\ history[2].status = "error"
    /\ history[1].status = "pending"
    /\ \E o \in outcome :
          /\ o.id = history[2].id
          /\ o.kind = "inferenceFailed"
          /\ o.rejection = "caught"

\* C14: a record has a result if and only if it is completed; pending and
\* error records have none.
C14_ResultIffCompleted ==
    \A i \in 1..Len(history) :
       (history[i].result # Null) <=> (history[i].status = "completed")

\* The history holds a failed record above a completed one; the completed
\* one alone has a result.
C14_Witness ==
    /\ Len(history) = 2
    /\ history[1].status = "error"
    /\ history[2].status = "completed"
    /\ history[2].result # Null

\* C15: the audio, the MIME type and the language of every call of the
\* inference client are those of the file and the language recorded in the
\* record of its submission, whatever the user has changed since.
C15_RequestAsSubmitted ==
    \A t \in tasks :
       t.request # Null =>
          /\ Cardinality(Positions(t.id)) = 1
          /\ \A i \in Positions(t.id) :
                \E f \in Files :
                   /\ f.name = history[i].fileName
                   /\ t.request[1].audio = <<"base64", f.bytes>>
                   /\ t.request[1].mimeType = f.type
                   /\ t.request[1].language = history[i].language

\* The inference client has been called for a submission after the user
\* removed its file, staged the other one and changed the language.
C15_Witness ==
    \E t \in tasks :
       /\ t.request # Null
       /\ currentFile # Null
       /\ currentFile[1].name # t.file.name
       /\ selectedLanguage # t.language

\* The analyses that end in this step.
Ending == tasks \ tasks'

\* A file other than the one the ending analysis submitted is staged.
OtherFileStaged ==
    /\ currentFile # Null
    /\ \E t \in Ending : currentFile[1] # t.file

\* C16, as stated: a file staged during an analysis, other than the one that
\* analysis submitted, is still staged when the analysis ends.
C16_EndKeepsOtherFile ==
    [][(Reconciled /\ OtherFileStaged) => currentFile' = currentFile]_vars

\* C16, amended: the end of an analysis clears whatever file is staged then,
\* also a file other than the one it submitted, and empties the file input.
C16_EndClearsAnyFile ==
    [][(Reconciled /\ OtherFileStaged)
          => (currentFile' = Null /\ inputValue' = "")]_vars

\* An analysis of sample.wav is at its inference call while the user has
\* removed that file and staged voice.mp3.
C16_Witness ==
    \E t \in tasks :
       /\ t.stage = "inferring"
       /\ t.file.name = "sample.wav"
       /\ currentFile # Null
       /\ currentFile[1].name = "voice.mp3"
       /\ inputValue = "voice.mp3"

\* C17: the flag is true exactly when some record is pending.
C17_FlagIffPending == isAnalyzing <=> (WithStatus("pending") # {})

\* The flag is up again for a second analysis, after the first one ended and
\* took it down.
C17_Witness ==
    /\ isAnalyzing
    /\ Len(history) = 2
    /\ history[1].status = "pending"
    /\ history[2].status = "completed"

\* C18: whenever no file is staged, the file input holds no selection.
C18_NoFileNoSelection == (currentFile = Null) => (inputValue = "")

====
